---- MODULE Spec2Model ----
(***************************************************************************)
(* The two WebSocket hooks of the console and the stores they write to.    *)
(*                                                                         *)
(*   "exp"  src/src/hooks/useWebSocket.ts  (exponential backoff,           *)
(*          writes src/src/stores/connectionStore.ts)                      *)
(*   "fix"  src/unnamed/part_004            (fixed delay,                  *)
(*          writes src/src/stores/appStore.ts)                             *)
(*                                                                         *)
(* A hook instance is the record m of everything its callbacks read and    *)
(* write: the store fields, the refs, the WebSocket objects it created and *)
(* the timers it scheduled.  Every callback of the source is an operator   *)
(* from m to m; an action of the state machine is one task of the          *)
(* browser's event loop (a user call, a socket event, a timer firing).     *)
(***************************************************************************)
EXTENDS Integers, Sequences, FiniteSets, TLC

\* ------------------------------------------------------------------ bounds
\* WebSocket objects wsRef no longer references that have not yet delivered
\* their close event (beside the one wsRef references).
MaxDetached == 1
\* Pending timers reconnectTimeoutRef no longer references (beside the one
\* it references).
MaxOrphans == 1
\* Readings of the wall clock (new Date()).
MaxTime == 1
\* Longest run of open failures the scripted scenario drives.
MaxFailures == 6

\* --------------------------------------------------------- program constants
maxReconnectAttempts == 5
reconnectInterval == 3000
baseDelay == 1000
maxDelay == 30000

\* null of a string or object field, and of a Date field.
Null == "null"
NoDate == -1
Hooks == {"exp", "fix"}
Times == 0..MaxTime

\* WebSocket.readyState.  The callbacks of all the objects a hook creates
\* close over the same refs and store, so an object is told from another
\* only by its readyState and by whether wsRef references it.
CONNECTING == "CONNECTING"
OPEN == "OPEN"
CLOSING == "CLOSING"
CLOSED == "CLOSED"
Live == {CONNECTING, OPEN}
Pending == {CONNECTING, OPEN, CLOSING}

\* A timer handle as reconnectTimeoutRef holds it: still pending, or spent
\* (fired or cleared; the ref is never reset to null).
PENDING == "PENDING"
SPENT == "SPENT"

\* ConnectionStatus of the two stores, and the union the text speaks of.
ExpStatus == {"connected", "disconnected", "reconnecting", "error"}
FixStatus == {"connected", "connecting", "disconnected", "error"}
ConnectionStatus == ExpStatus \cup FixStatus

ErrConnectionFailed == "WebSocket connection failed"
ErrCreateFailed == "Failed to create WebSocket connection"
ErrMaxAttempts == "Max reconnection attempts reached"

VARIABLES
  hook,                 \* which of the two hooks this instance is
  onMessage,            \* the message callback the caller registered
  status,               \* store: status / connectionStatus
  errorMessage,         \* store: errorMessage (connectionStore only)
  lastSync,             \* store: lastSync / lastSyncTime
  reconnectAttempts,    \* ref: reconnectAttempts / reconnectAttemptsRef
  wsRef,                \* ref: wsRef.current, as Null or the object's readyState
  reconnectTimeoutRef,  \* ref: reconnectTimeoutRef.current: Null, PENDING or SPENT
  detached,             \* readyState -> number of objects wsRef does not reference
  orphans,              \* number of pending timers the ref does not reference
  now,                  \* the wall clock
  handled,              \* onMessage invocations of the last task
  invalidated,          \* query keys invalidated during the last task
  sent,                 \* frames written to a socket during the last task
  scheduled,            \* delays (ms) passed to setTimeout during the last task
  logged,               \* console.error calls of the last task
  uncaught,             \* whether an exception left a callback of the last task
  threw,                \* whether new WebSocket(url) threw during the last task
  lastOp,               \* the last task run
  recording,            \* whether the run history below is kept
  statusLog,            \* every status passed to setStatus, in order
  failures,             \* consecutive open failures since connect() / open
  created,              \* sockets created since the first connect()
  mounted,              \* whether the component that uses the hook is mounted
  counting,             \* whether the count below is kept
  retried,              \* sockets created since the last open or connect() call
  config,               \* store: config (apiBaseUrl, wsUrl, theme)
  storage,              \* client-side storage: the item the persisted store wrote
  patch,                \* the partial config the last task passed to setConfig
  dirty,                \* whether the store was set since the component mounted
  accepting             \* whether the backend now accepts and keeps every connection

store == <<status, errorMessage, lastSync>>
refs == <<reconnectAttempts, wsRef, reconnectTimeoutRef>>
browser == <<detached, orphans, now>>
effects == <<handled, invalidated, sent, scheduled, logged, uncaught, threw, lastOp>>
history == <<recording, statusLog, failures, created, counting, retried>>
settings == <<config, storage, patch>>
vars ==
  <<hook, onMessage, mounted, dirty, accepting, store, refs, browser, effects, history,
    settings>>

\* ------------------------------------------------- the persisted settings
ConfigKeys == {"apiBaseUrl", "wsUrl", "theme"}

DefaultConfig ==
  [apiBaseUrl |-> "http://localhost:8000", wsUrl |-> "ws://localhost:8000/ws",
   theme |-> "dark"]

\* Values the settings surface can save.
ConfigValues ==
  [apiBaseUrl |-> {"http://localhost:8000", "http://genesis:8000"},
   wsUrl |-> {"ws://localhost:8000/ws", "ws://genesis:8000/ws"},
   theme |-> {"light", "dark", "system"}]

\* The partial objects callers pass to setConfig: both URLs (Settings), the
\* theme alone, one URL alone, or nothing.
PartialKeys == {{"apiBaseUrl", "wsUrl"}, {"theme"}, {"wsUrl"}, {}}

Partials ==
  UNION {[keys -> UNION {ConfigValues[k] : k \in keys}] : keys \in PartialKeys}

WellTyped(partial) == \A k \in DOMAIN partial : partial[k] \in ConfigValues[k]

\* An object without keys: no partial config, nothing stored.
Empty == [k \in {} |-> Null]

\* config: { ...state.config, ...newConfig }
setConfig(cfg, newConfig) ==
  [k \in DOMAIN cfg \cup DOMAIN newConfig |->
     IF k \in DOMAIN newConfig THEN newConfig[k] ELSE cfg[k]]

\* The state of the store that holds the configuration.
AppState(cfg, connectionStatus, lastSyncTime) ==
  [config |-> cfg, connectionStatus |-> connectionStatus, lastSyncTime |-> lastSyncTime]

\* Mutant of Partialize: the whole state is persisted.
PartializeAll(state) == state

\* partialize: (state) => ({ config: state.config })
Partialize(state) == [k \in {"config"} |-> state[k]]

\* The store created at start: the initial state, with the keys of the
\* stored item written over it.
Rehydrate(initial, item) ==
  [k \in DOMAIN initial |-> IF k \in DOMAIN item THEN item[k] ELSE initial[k]]

\* ------------------------------------------------------------ the instance
\* The hook instance as its callbacks see it.
Self ==
  [ status |-> status, errorMessage |-> errorMessage, lastSync |-> lastSync,
    reconnectAttempts |-> reconnectAttempts, wsRef |-> wsRef,
    reconnectTimeoutRef |-> reconnectTimeoutRef,
    detached |-> detached, orphans |-> orphans,
    notes |-> <<>>, handled |-> <<>>, invalidated |-> <<>>, sent |-> <<>>,
    scheduled |-> <<>>,
    logged |-> <<>>, uncaught |-> FALSE, threw |-> FALSE, made |-> 0,
    recording |-> recording, statusLog |-> statusLog, created |-> created ]

\* What a store subscriber is shown by one set() call: the store after the
\* call, and the attempts counter as it stands at that moment.
Snapshot(m, key) ==
  [ key |-> key, status |-> m.status, errorMessage |-> m.errorMessage,
    lastSync |-> m.lastSync, reconnectAttempts |-> m.reconnectAttempts ]

Publish(m, key) == [m EXCEPT !.notes = Append(@, Snapshot(m, key))]

\* ------------------------------------------------- connectionStore ("exp")
setStatus(m, v) ==
  Publish([m EXCEPT !.status = v,
                    !.statusLog = IF m.recording THEN Append(@, v) ELSE @],
          "status")

setLastSync(m, date) == Publish([m EXCEPT !.lastSync = date], "lastSync")

setError(m, message) == Publish([m EXCEPT !.errorMessage = message], "errorMessage")

\* --------------------------------------------------------- appStore ("fix")
setConnectionStatus(m, v) ==
  Publish([m EXCEPT !.status = v,
                    !.statusLog = IF m.recording THEN Append(@, v) ELSE @],
          "connectionStatus")

setLastSyncTime(m, time) == Publish([m EXCEPT !.lastSync = time], "lastSyncTime")

\* ----------------------------------------------------- browser primitives
\* wsRef.current?.readyState === WebSocket.OPEN
IsOpen(m) == m.wsRef = OPEN

\* Sockets the hook created that are CONNECTING or OPEN.
LiveSockets(m) ==
  (IF m.wsRef \in Live THEN 1 ELSE 0) + m.detached[CONNECTING] + m.detached[OPEN]

\* Timers that will still fire.
PendingTimers(m) == (IF m.reconnectTimeoutRef = PENDING THEN 1 ELSE 0) + m.orphans

\* wsRef.current stops referencing its object (it is overwritten or set to
\* null); an object that has not closed yet lives on with its callbacks.
Detach(m) ==
  IF m.wsRef \in Pending
    THEN [m EXCEPT !.detached[m.wsRef] = @ + 1, !.wsRef = Null]
    ELSE [m EXCEPT !.wsRef = Null]

\* wsRef.current = new WebSocket(url)
NewWebSocket(m) ==
  [Detach(m) EXCEPT !.wsRef = CONNECTING,
                    !.made = @ + 1,
                    !.created = IF m.recording THEN @ + 1 ELSE @]

\* reconnectTimeoutRef.current = setTimeout(callback, delay): a pending
\* handle the ref held is overwritten and its timer still fires.
SetTimeout(m, delay) ==
  [m EXCEPT !.orphans = IF m.reconnectTimeoutRef = PENDING THEN @ + 1 ELSE @,
            !.reconnectTimeoutRef = PENDING,
            !.scheduled = Append(@, delay)]

\* clearTimeout(reconnectTimeoutRef.current): a handle that already fired or
\* was cleared is ignored.
ClearTimeout(m) ==
  IF m.reconnectTimeoutRef = PENDING THEN [m EXCEPT !.reconnectTimeoutRef = SPENT] ELSE m

\* wsRef.current.close(): starts the closing handshake of an object that is
\* connecting or open; its close event comes in a later task.
Close(m) == IF m.wsRef \in Live THEN [m EXCEPT !.wsRef = CLOSING] ELSE m

\* ------------------------------------------------------------------ frames
\* Text frames the peer may send, and the messages a caller may pass to
\* send().  A message is [kind, type]: an object with a type, or any other
\* JSON value.
Message(type) == [kind |-> "object", type |-> type]
JsonNull == [kind |-> "null", type |-> ""]
MessageTypes == {"data_update", "log", "brain_update", "ping"}
Messages == {Message(t) : t \in MessageTypes}
\* What callers pass to send().
Outgoing == {Message("ping")}

\* JSON.stringify(message)
JsonStringify(msg) ==
  IF msg.kind = "object" THEN "{\"type\":\"" \o msg.type \o "\"}" ELSE "null"

Truncated == "{\"type\":\"lo"
Frames == {JsonStringify(msg) : msg \in Messages} \cup {"null", Truncated, ""}

\* JSON.parse(text): [ok, value]; ok is FALSE where JSON.parse throws.
JsonParse(text) ==
  IF \E msg \in Messages : JsonStringify(msg) = text
    THEN [ok |-> TRUE, value |-> CHOOSE msg \in Messages : JsonStringify(msg) = text]
  ELSE IF text = "null"
    THEN [ok |-> TRUE, value |-> JsonNull]
  ELSE [ok |-> FALSE, value |-> JsonNull]

\* Mutant of DashboardOnMessage: every recognised type invalidates the query
\* domain as well.
DashboardOnMessageRefetchAll(message) ==
  IF message.kind # "object"
    THEN [threw |-> TRUE, keys |-> <<>>]
    ELSE [threw |-> FALSE,
          keys |-> (IF message.type \in {"data_update", "log", "brain_update"}
                      THEN <<"query">> ELSE <<>>)
                   \o (IF message.type = "log" THEN <<"logs">> ELSE <<>>)
                   \o (IF message.type = "brain_update" THEN <<"brain">> ELSE <<>>)]

\* The callback DashboardLayout passes to the hook: one invalidation per
\* recognised type.  Reading .type of null throws a TypeError.
DashboardOnMessage(message) ==
  IF message.kind # "object"
    THEN [threw |-> TRUE, keys |-> <<>>]
    ELSE [threw |-> FALSE,
          keys |-> (IF message.type = "data_update" THEN <<"query">> ELSE <<>>)
                   \o (IF message.type = "log" THEN <<"logs">> ELSE <<>>)
                   \o (IF message.type = "brain_update" THEN <<"brain">> ELSE <<>>)]

\* Mutant of CallOnMessage: the callback runs twice.
CallOnMessageTwice(m, cb, message) ==
  IF cb = "none" THEN [threw |-> FALSE, m |-> m]
  ELSE LET r == DashboardOnMessage(message)
       IN [threw |-> r.threw,
           m |-> [m EXCEPT !.handled = @ \o <<message, message>>,
                           !.invalidated = @ \o r.keys \o r.keys]]

\* onMessage?.(message): nothing when no callback is registered.
CallOnMessage(m, cb, message) ==
  IF cb = "none" THEN [threw |-> FALSE, m |-> m]
  ELSE LET r == DashboardOnMessage(message)
       IN [threw |-> r.threw,
           m |-> [m EXCEPT !.handled = Append(@, message),
                           !.invalidated = @ \o r.keys]]

ParseError == "Failed to parse WebSocket message:"
ConnectionError == "WebSocket connection error:"

ConsoleError(m, text) == [m EXCEPT !.logged = Append(@, text)]

\* ------------------------------------- src/src/hooks/useWebSocket.ts ("exp")
\* Math.min(1000 * Math.pow(2, reconnectAttempts.current), 30000)
\* Mutant of ExpDelay: the delay is not capped.
ExpDelayUncapped(attempts) == baseDelay * 2^attempts

ExpDelay(attempts) ==
  IF baseDelay * 2^attempts < maxDelay THEN baseDelay * 2^attempts ELSE maxDelay

\* The try block of connect(); throws is whether new WebSocket(url) throws.
\* Mutant of ExpConnect: the readyState test is missing.
ExpConnectUnguarded(m, throws) ==
  IF throws
    THEN setError(setStatus([m EXCEPT !.threw = TRUE], "error"), ErrCreateFailed)
    ELSE NewWebSocket(m)

ExpConnect(m, throws) ==
  IF IsOpen(m) THEN m
  ELSE IF throws
    THEN setError(setStatus([m EXCEPT !.threw = TRUE], "error"), ErrCreateFailed)
  ELSE NewWebSocket(m)

\* Mutant of ExpOnOpen: the attempts counter is not reset.
ExpOnOpenKeepsAttempts(m, t) == setLastSync(setError(setStatus(m, "connected"), Null), t)

ExpOnOpen(m, t) ==
  LET m1 == setStatus(m, "connected")
      m2 == setError(m1, Null)
      m3 == setLastSync(m2, t)
  IN [m3 EXCEPT !.reconnectAttempts = 0]

\* Mutant of ExpOnMessage: lastSync is written before the frame is parsed.
ExpOnMessageSyncFirst(m, cb, data, t) ==
  LET p == JsonParse(data)
      m1 == setLastSync(m, t)
  IN IF ~p.ok THEN ConsoleError(m1, ParseError)
     ELSE LET r == CallOnMessage(m1, cb, p.value)
          IN IF r.threw THEN ConsoleError(r.m, ParseError) ELSE r.m

ExpOnMessage(m, cb, data, t) ==
  LET p == JsonParse(data)
  IN IF ~p.ok THEN ConsoleError(m, ParseError)
     ELSE LET r == CallOnMessage(setLastSync(m, t), cb, p.value)
          IN IF r.threw THEN ConsoleError(r.m, ParseError) ELSE r.m

ExpAttemptReconnect(m) ==
  IF m.reconnectAttempts >= maxReconnectAttempts
    THEN setError(setStatus(m, "error"), ErrMaxAttempts)
    ELSE LET m1 == setStatus(m, "reconnecting")
             m2 == [m1 EXCEPT !.reconnectAttempts = @ + 1]
         IN SetTimeout(m2, ExpDelay(m2.reconnectAttempts))

\* Mutant of ExpOnClose: `disconnected` is not published before the retry.
ExpOnCloseStraightToRetry(m) == ExpAttemptReconnect(m)

ExpOnClose(m) == ExpAttemptReconnect(setStatus(m, "disconnected"))

\* Mutant of ExpOnError: the error also clears the time of the last sync.
ExpOnErrorClearsLastSync(m) ==
  setLastSync(setError(setStatus(m, "error"), ErrConnectionFailed), NoDate)

ExpOnError(m) == setError(setStatus(m, "error"), ErrConnectionFailed)

\* The callback attemptReconnect hands to setTimeout.
ExpOnTimer(m, throws) == ExpConnect(m, throws)

\* Mutant of ExpDisconnect: the attempt counter is reset as well.
ExpDisconnectResets(m) ==
  LET m1 == IF m.reconnectTimeoutRef # Null THEN ClearTimeout(m) ELSE m
      m2 == IF m1.wsRef # Null THEN Close(m1) ELSE m1
  IN [setStatus(m2, "disconnected") EXCEPT !.reconnectAttempts = 0]

ExpDisconnect(m) ==
  LET m1 == IF m.reconnectTimeoutRef # Null THEN ClearTimeout(m) ELSE m
      m2 == IF m1.wsRef # Null THEN Close(m1) ELSE m1
  IN setStatus(m2, "disconnected")

ExpSend(m, message) ==
  IF IsOpen(m)
    THEN [m EXCEPT !.sent = Append(@, JsonStringify(message))]
    ELSE m

\* ------------------------------------------------ src/unnamed/part_004 ("fix")
\* The optional callbacks onOpen, onClose and onError are not modelled: the
\* hook's caller (Settings) passes no options.
\* Mutant of FixConnect: `connecting` is not published.
FixConnectSilent(m, throws) ==
  IF IsOpen(m) THEN m
  ELSE IF throws
    THEN ConsoleError(setConnectionStatus([m EXCEPT !.threw = TRUE], "error"),
                      ConnectionError)
  ELSE NewWebSocket(m)

FixConnect(m, throws) ==
  IF IsOpen(m) THEN m
  ELSE LET m1 == setConnectionStatus(m, "connecting")
       IN IF throws
            THEN ConsoleError(setConnectionStatus([m1 EXCEPT !.threw = TRUE], "error"),
                              ConnectionError)
            ELSE NewWebSocket(m1)

FixOnOpen(m, t) ==
  LET m1 == setConnectionStatus(m, "connected")
      m2 == setLastSyncTime(m1, t)
  IN [m2 EXCEPT !.reconnectAttempts = 0]

FixOnMessage(m, cb, data, t) ==
  LET p == JsonParse(data)
  IN IF ~p.ok THEN ConsoleError(m, ParseError)
     ELSE LET r == CallOnMessage(setLastSyncTime(m, t), cb, p.value)
          IN IF r.threw THEN ConsoleError(r.m, ParseError) ELSE r.m

\* Mutant of FixOnClose: no retry is scheduled.
FixOnCloseGivesUp(m) == setConnectionStatus(m, "disconnected")

FixOnClose(m) ==
  LET m1 == setConnectionStatus(m, "disconnected")
  IN IF m1.reconnectAttempts < maxReconnectAttempts
       THEN SetTimeout(m1, reconnectInterval)
       ELSE m1

\* Mutant of FixOnError: an error also uses up the retry budget.
FixOnErrorStopsRetries(m) ==
  [setConnectionStatus(m, "error") EXCEPT !.reconnectAttempts = maxReconnectAttempts]

FixOnError(m) == setConnectionStatus(m, "error")

\* Mutant of FixOnTimer: the attempt is not counted.
FixOnTimerKeepsCount(m, throws) == FixConnect(m, throws)

\* The callback onclose hands to setTimeout.
FixOnTimer(m, throws) ==
  FixConnect([m EXCEPT !.reconnectAttempts = @ + 1], throws)

\* Mutant of FixDisconnect: the time of the last sync is forgotten.
FixDisconnectForgetsSync(m) ==
  LET m1 == IF m.reconnectTimeoutRef # Null THEN ClearTimeout(m) ELSE m
      m2 == IF m1.wsRef # Null THEN Detach(Close(m1)) ELSE m1
  IN setLastSyncTime(setConnectionStatus(m2, "disconnected"), NoDate)

FixDisconnect(m) ==
  LET m1 == IF m.reconnectTimeoutRef # Null THEN ClearTimeout(m) ELSE m
      m2 == IF m1.wsRef # Null THEN Detach(Close(m1)) ELSE m1
  IN setConnectionStatus(m2, "disconnected")

FixSend(m, message) ==
  IF IsOpen(m)
    THEN [m EXCEPT !.sent = Append(@, JsonStringify(message))]
    ELSE m

\* ------------------------------------------------------------ the two hooks
connect(m, throws) == IF hook = "exp" THEN ExpConnect(m, throws) ELSE FixConnect(m, throws)

disconnect(m) == IF hook = "exp" THEN ExpDisconnect(m) ELSE FixDisconnect(m)

send(m, message) == IF hook = "exp" THEN ExpSend(m, message) ELSE FixSend(m, message)

onopen(m, t) == IF hook = "exp" THEN ExpOnOpen(m, t) ELSE FixOnOpen(m, t)

onmessage(m, cb, data, t) ==
  IF hook = "exp" THEN ExpOnMessage(m, cb, data, t) ELSE FixOnMessage(m, cb, data, t)

onclose(m) == IF hook = "exp" THEN ExpOnClose(m) ELSE FixOnClose(m)

onerror(m) == IF hook = "exp" THEN ExpOnError(m) ELSE FixOnError(m)

ontimer(m, throws) == IF hook = "exp" THEN ExpOnTimer(m, throws) ELSE FixOnTimer(m, throws)


\* ------------------------------------------------------------------- tasks
Op(op, data) == [op |-> op, data |-> data]

\* The sockets that can deliver an event: the one wsRef references, or a
\* detached one, in readyState st.
Who == {"ref", "detached"}

Has(who, st) ==
  IF who = "ref" THEN wsRef = st ELSE detached[st] > 0

\* The object's readyState changes from st to to (CLOSED objects that
\* nothing references are gone).
Moves(m, who, st, to) ==
  IF who = "ref" THEN [m EXCEPT !.wsRef = to]
  ELSE IF to = CLOSED THEN [m EXCEPT !.detached[st] = @ - 1]
  ELSE [m EXCEPT !.detached[st] = @ - 1, !.detached[to] = @ + 1]

\* The model holds MaxDetached detached objects and MaxOrphans orphaned
\* timers at a time.
Fits(m) ==
  /\ m.detached[CONNECTING] + m.detached[OPEN] + m.detached[CLOSING] <= MaxDetached
  /\ m.orphans <= MaxOrphans

\* The state after a task that left the instance as m.
Becomes(m, op, fails) ==
  /\ Fits(m)
  /\ status' = m.status
  /\ errorMessage' = m.errorMessage
  /\ lastSync' = m.lastSync
  /\ reconnectAttempts' = m.reconnectAttempts
  /\ wsRef' = m.wsRef
  /\ reconnectTimeoutRef' = m.reconnectTimeoutRef
  /\ detached' = m.detached
  /\ orphans' = m.orphans
  /\ handled' = m.handled
  /\ invalidated' = m.invalidated
  /\ sent' = m.sent
  /\ scheduled' = m.scheduled
  /\ logged' = m.logged
  /\ uncaught' = m.uncaught
  /\ threw' = m.threw
  /\ retried' = (IF ~counting THEN retried
                 ELSE IF op.op \in {"open", "connect"} THEN 0
                 ELSE retried + m.made)
  /\ statusLog' = m.statusLog
  /\ created' = m.created
  /\ lastOp' = op
  /\ failures' = (IF recording THEN fails ELSE failures)
  /\ storage' = (IF hook = "fix" /\ m.notes # <<>>
                   THEN Partialize(AppState(config, m.status, m.lastSync))
                   ELSE storage)
  /\ patch' = Empty
  /\ dirty' = (IF op.op = "restart" THEN FALSE
               ELSE dirty \/ (hook = "exp" /\ m.notes # <<>>))
  /\ UNCHANGED <<hook, onMessage, now, recording, counting, config, accepting>>

\* The user (or the mount effect) calls connect().
Connect ==
  \E throws \in BOOLEAN :
    \E m \in {connect(Self, throws)} :
      mounted /\ mounted' = mounted /\ Becomes(m, Op("connect", ""), 0)

\* The user (or the effect cleanup) calls disconnect(); lastOp notes what
\* wsRef.current was at the call.
Disconnect ==
  \E ws \in {wsRef} :
    mounted /\ mounted' = mounted /\ Becomes(disconnect(Self), Op("disconnect", ws), failures)

\* The component unmounts: the effect cleanup calls disconnect().  Nothing
\* calls connect(), disconnect() or send() afterwards.
Unmount ==
  \E ws \in {wsRef} :
    mounted /\ mounted' = FALSE /\ Becomes(disconnect(Self), Op("unmount", ws), failures)

\* A caller calls send(message).
Send ==
  \E message \in Outgoing :
    \E m \in {send(Self, message)} :
      mounted /\ mounted' = mounted
        /\ Becomes(m, Op("send", JsonStringify(message)), failures)

\* The connection of a socket is established: readyState OPEN, open event.
SockOpen(who) ==
  /\ Has(who, CONNECTING)
  /\ mounted' = mounted
  /\ Becomes(onopen(Moves(Self, who, CONNECTING, OPEN), now), Op("open", who), 0)

\* A text frame arrives on an open socket: message event.
SockMessage(who) ==
  /\ Has(who, OPEN)
  /\ mounted' = mounted
  /\ \E data \in Frames :
       Becomes(onmessage(Self, onMessage, data, now), Op("message", data), failures)

\* An open failure is the close of a socket that never opened.
Failed(st) == IF st = CONNECTING THEN failures + 1 ELSE failures

\* The connection of a socket is closed cleanly: readyState CLOSED, close event.
SockClose(who, st) ==
  /\ Has(who, st)
  /\ mounted' = mounted
  /\ Becomes(onclose(Moves(Self, who, st, CLOSED)), Op("close", who), Failed(st))

\* The connection of a socket fails: readyState CLOSED, then the error event
\* and the close event in the same task.
SockFail(who, st) ==
  /\ Has(who, st)
  /\ mounted' = mounted
  /\ Becomes(onclose(onerror(Moves(Self, who, st, CLOSED))), Op("fail", who), Failed(st))

\* A pending timer expires and its callback runs: the one the ref holds, or
\* an orphaned one.
TimerFire(which) ==
  /\ IF which = "ref" THEN reconnectTimeoutRef = PENDING ELSE orphans > 0
  /\ mounted' = mounted
  /\ \E throws \in BOOLEAN :
       LET m == IF which = "ref" THEN [Self EXCEPT !.reconnectTimeoutRef = SPENT]
                                 ELSE [Self EXCEPT !.orphans = @ - 1]
       IN Becomes(ontimer(m, throws), Op("timer", which), failures)

\* Time passes between two tasks.
Tick ==
  /\ now < MaxTime
  /\ now' = now + 1
  /\ handled' = <<>> /\ invalidated' = <<>> /\ sent' = <<>> /\ scheduled' = <<>>
  /\ logged' = <<>> /\ uncaught' = FALSE /\ threw' = FALSE
  /\ patch' = Empty
  /\ lastOp' = Op("tick", "")
  /\ UNCHANGED <<hook, onMessage, mounted, dirty, accepting, store, refs, detached,
                 orphans, history, config, storage>>

\* The refs, the store and the browser as a fresh page load creates them.
Fresh ==
  [ status |-> "disconnected", errorMessage |-> Null, lastSync |-> NoDate,
    reconnectAttempts |-> 0, wsRef |-> Null, reconnectTimeoutRef |-> Null,
    detached |-> [st \in Pending |-> 0], orphans |-> 0,
    notes |-> <<>>, handled |-> <<>>, invalidated |-> <<>>, sent |-> <<>>,
    scheduled |-> <<>>,
    logged |-> <<>>, uncaught |-> FALSE, threw |-> FALSE, made |-> 0,
    recording |-> recording, statusLog |-> statusLog, created |-> created ]

\* The page is reloaded: refs, sockets and timers of the old page are gone,
\* both stores are created anew and the persisted one reads its item back.
Restart ==
  LET state == Rehydrate(AppState(DefaultConfig, "disconnected", NoDate), storage)
      m == IF hook = "fix"
             THEN [Fresh EXCEPT !.status = state.connectionStatus,
                                !.lastSync = state.lastSyncTime]
             ELSE Fresh
  IN /\ lastOp.op # "restart"
     /\ Becomes(m, Op("restart", ""), failures)
     /\ mounted' = TRUE

\* The settings surface saves a partial configuration.
SetConfig ==
  \E newConfig \in Partials :
    /\ WellTyped(newConfig)
    /\ hook = "exp" => Cardinality(DOMAIN newConfig) = 1
    /\ config' = setConfig(config, newConfig)
    /\ storage' = Partialize(AppState(config', IF hook = "fix" THEN status ELSE "disconnected",
                                        IF hook = "fix" THEN lastSync ELSE NoDate))
    /\ patch' = newConfig
    /\ handled' = <<>> /\ invalidated' = <<>> /\ sent' = <<>> /\ scheduled' = <<>>
    /\ logged' = <<>> /\ uncaught' = FALSE /\ threw' = FALSE
    /\ lastOp' = Op("setConfig", "")
    /\ UNCHANGED <<hook, onMessage, mounted, dirty, accepting, store, refs, browser,
                   history>>

InitInstance ==
  /\ hook \in Hooks
  /\ config = DefaultConfig
  /\ storage = Empty
  /\ patch = Empty
  /\ dirty = FALSE
  /\ accepting = FALSE
  \* DashboardLayout passes its callback to the "exp" hook; Settings calls
  \* the "fix" hook without options.
  /\ onMessage = (IF hook = "exp" THEN "dashboard" ELSE "none")
  /\ status = "disconnected"
  /\ errorMessage = Null
  /\ lastSync = NoDate
  /\ reconnectAttempts = 0
  /\ wsRef = Null
  /\ reconnectTimeoutRef = Null
  /\ detached = [st \in Pending |-> 0]
  /\ orphans = 0
  /\ now = 0
  /\ handled = <<>> /\ invalidated = <<>> /\ sent = <<>> /\ scheduled = <<>>
  /\ logged = <<>> /\ uncaught = FALSE /\ threw = FALSE
  /\ lastOp = Op("init", "")
  /\ mounted = TRUE
  /\ retried = 0
  /\ statusLog = <<>>
  /\ failures = 0
  /\ created = 0

Init == InitInstance /\ recording = FALSE /\ counting = FALSE

Next ==
  \/ Connect
  \/ Disconnect
  \/ Unmount
  \/ Send
  \/ \E who \in Who : SockOpen(who)
  \/ \E who \in Who : SockMessage(who)
  \/ \E who \in Who, st \in Pending : SockClose(who, st)
  \/ \E who \in Who, st \in Pending : SockFail(who, st)
  \/ \E which \in {"ref", "orphan"} : TimerFire(which)
  \/ Tick

Spec == Init /\ [][Next]_vars

\* ------------------------------------------------------------- recovery
\* Any run of the hook, until the backend recovers; from then on every
\* connection attempt is accepted and kept open, nobody calls connect() or
\* disconnect(), and timers and socket events are scheduled fairly.
Recover ==
  /\ ~accepting
  /\ accepting' = TRUE
  /\ UNCHANGED <<hook, onMessage, mounted, dirty, store, refs, browser, effects, history,
                 settings>>

\* A retry timer fires and the constructor returns a socket.
RetryAccepted == \E which \in {"ref", "orphan"} : TimerFire(which) /\ ~threw'

\* A socket the backend accepted opens.
Accepted == \E who \in Who : SockOpen(who)

\* A socket on which close() was called delivers its close event.
Released == \E who \in Who : SockClose(who, CLOSING)

Delivered == \E who \in Who : SockMessage(who)

RecoveryNext ==
  \/ ~accepting /\ Next
  \/ Recover
  \/ accepting /\ RetryAccepted
  \/ accepting /\ Accepted
  \/ accepting /\ Released
  \/ accepting /\ Delivered
  \/ accepting /\ Tick

RecoverySpec ==
  /\ Init /\ [][RecoveryNext]_vars
  /\ WF_vars(accepting /\ RetryAccepted)
  /\ WF_vars(accepting /\ Accepted)
  /\ WF_vars(accepting /\ Released)

\* ------------------------------------------------- the hook in its layout
\* DashboardLayout renders again after every set() of the store the hook
\* subscribes to, and hands the hook a new inline callback: connect is a new
\* function, the mount effect's dependencies have changed, and React runs
\* the effect's cleanup, disconnect(), and then the effect, connect().
Rerender ==
  /\ hook = "exp" /\ onMessage = "dashboard"
  /\ mounted /\ dirty
  /\ mounted' = mounted
  /\ \E throws \in BOOLEAN :
       Becomes(connect(disconnect(Self), throws), Op("effect", wsRef), failures)

LayoutNext == Next \/ Rerender

LayoutSpec == Init /\ [][LayoutNext]_vars

\* ------------------------------------------------ settings and page reloads
\* The connection of the page as the user drives it (one socket at a time:
\* connect, open, frames, failures, retries), with the settings surface
\* saving configurations and the page being reloaded at any moment.
StoreNext ==
  \/ SetConfig
  \/ Restart
  \/ wsRef \notin Live /\ Connect
  \/ SockOpen("ref")
  \/ SockMessage("ref")
  \/ \E st \in Live : SockFail("ref", st)
  \/ TimerFire("ref")
  \/ Tick

StoreSpec == Init /\ [][StoreNext]_vars

\* ------------------------------------------------------- the retry budget
\* The same instance and tasks, with the sockets created since the last
\* open or connect() call counted.
BudgetInit == InitInstance /\ recording = FALSE /\ counting = TRUE

BudgetSpec == BudgetInit /\ [][Next]_vars

\* ------------------------------------------------------ the retry scenario
\* One connect(), then the backend alone acts: every socket the hook creates
\* either fails to open or opens, and the retry timer fires.  The run
\* history (statusLog, failures, created) is kept.
ScenarioInit == InitInstance /\ recording = TRUE /\ counting = FALSE

FirstConnect == created = 0 /\ statusLog = <<>> /\ Connect

OpenFailure ==
  /\ failures < MaxFailures
  /\ \/ SockClose("ref", CONNECTING)
     \/ SockFail("ref", CONNECTING)

Retry == TimerFire("ref")

Opens == SockOpen("ref")

ScenarioNext == FirstConnect \/ OpenFailure \/ Retry \/ Opens \/ Tick

ScenarioSpec == ScenarioInit /\ [][ScenarioNext]_vars

\* ============================================================== properties

\* C1: the manager never has two simultaneously live sockets (created by it,
\* CONNECTING or OPEN, not yet closed), whatever the interleaving of
\* connect(), disconnect(), socket events and timer firings.
C1_AtMostOneLiveSocket == LiveSockets(Self) <= 1

\* C2: after disconnect() was called on an open socket, the close event that
\* socket then delivers schedules no retry timer and leaves status
\* `disconnected`.
C2_NoReconnectAfterDisconnect ==
  [][(lastOp = Op("disconnect", OPEN) /\ lastOp'.op \in {"close", "fail"})
       => (scheduled' = <<>> /\ PendingTimers(Self)' = 0 /\ status' = "disconnected")]_vars

\* C3: disconnect() cancels every pending retry: no timer callback runs
\* after it.
C3_DisconnectCancelsEveryRetry ==
  [][(lastOp.op = "disconnect") => (lastOp'.op # "timer")]_vars

\* C4: after N >= maxReconnectAttempts consecutive open failures (no open,
\* no explicit connect() in between) status is `error`, errorMessage is the
\* terminal description and no retry timer is pending.
C4_ExhaustedAfterMaxFailures ==
  (failures >= maxReconnectAttempts /\ lastOp.op \in {"close", "fail"})
    => (status = "error" /\ errorMessage = ErrMaxAttempts /\ PendingTimers(Self) = 0)

\* C5: in the fixed-delay hook a run of 5 consecutive open failures starting
\* from connect() ends with status `error` and reconnectAttempts = 5.
C5_FiveFailuresEndInError ==
  (hook = "fix" /\ failures = 5 /\ lastOp.op \in {"close", "fail"})
    => (status = "error" /\ reconnectAttempts = 5)

\* The run in which the third socket opens after two open failures.
OpensOnThirdAttempt == lastOp.op = "open" /\ created = 3

WithoutError(log) == SelectSeq(log, LAMBDA v : v # "error")

Settled(n, t) ==
  /\ n.status = "connected"
  /\ n.reconnectAttempts = 0
  /\ n.errorMessage = Null
  /\ n.lastSync = t

\* C7 as stated: in every state a subscriber is shown from the first store
\* update of the open handler onward, status is `connected`,
\* reconnectAttempts = 0, errorMessage = null and lastSyncTime is the time
\* of the open.
C7_EveryNotifiedState ==
  [][\A who \in Who :
       (lastOp'.op = "open" /\ lastOp'.data = who) =>
         LET shown == onopen(Moves(Self, who, CONNECTING, OPEN), now).notes
         IN \A i \in DOMAIN shown : Settled(shown[i], now)]_vars

\* C7 as amended: when the open handler has returned, status is `connected`,
\* reconnectAttempts = 0, errorMessage = null and lastSyncTime is the time
\* of the open.
C7_AfterOpenHandler ==
  lastOp.op = "open"
    => Settled([status |-> status, reconnectAttempts |-> reconnectAttempts,
                errorMessage |-> errorMessage, lastSync |-> lastSync], now)

C7_OpenedAfterRetry ==
  /\ lastOp.op = "open"
  /\ reconnectTimeoutRef = SPENT
  /\ status = "connected"
  /\ now > 0

\* C8: a frame JSON.parse rejects changes nothing: the store, the refs,
\* the sockets and the pending timers are as before, the message callback
\* is not invoked and no exception leaves onmessage.
C8_MalformedFrameChangesNothing ==
  [][(lastOp'.op = "message" /\ ~JsonParse(lastOp'.data).ok)
       => /\ UNCHANGED <<store, refs, detached, orphans>>
          /\ handled' = <<>> /\ invalidated' = <<>>
          /\ uncaught' = FALSE]_vars

C8_MalformedFrameDropped ==
  /\ lastOp = Op("message", Truncated)
  /\ logged = <<ParseError>>
  /\ lastSync # NoDate /\ lastSync < now

\* C9: a frame JSON.parse accepts sets lastSyncTime to its arrival time and
\* the registered callback is invoked exactly once, with the parsed message;
\* a `log` frame invalidates the logs domain exactly once.
C9_WellFormedFrameHandledOnce ==
  [][(lastOp'.op = "message" /\ JsonParse(lastOp'.data).ok)
       => LET message == JsonParse(lastOp'.data).value
          IN /\ lastSync' = now
             /\ onMessage # "none" => handled' = <<message>>
             /\ (onMessage = "dashboard" /\ message = Message("log"))
                  => invalidated' = <<"logs">>]_vars

C9_LogFrameHandled ==
  /\ lastOp = Op("message", JsonStringify(Message("log")))
  /\ handled = <<Message("log")>>
  /\ invalidated = <<"logs">>
  /\ lastSync = now /\ now > 0

\* C10: send(message) transmits if and only if status is `connected` at the
\* call.
C10_SendIffConnected ==
  lastOp.op = "send" => ((sent # <<>>) <=> (status = "connected"))

C13_AttemptsResetOnlyByOpen ==
  [][/\ reconnectAttempts' < reconnectAttempts =>
          lastOp'.op = "open" /\ status' = "connected" /\ reconnectAttempts' = 0
     /\ (status # "connected" /\ status' = "connected") =>
          lastOp'.op = "open" /\ reconnectAttempts' = 0
     /\ lastOp'.op = "open" => reconnectAttempts' = 0
     /\ (status \in {"reconnecting", "error"} /\ status' # "connected") =>
          reconnectAttempts' >= reconnectAttempts]_vars

C13_DisconnectKeptAttempts ==
  /\ lastOp.op = "disconnect"
  /\ reconnectAttempts = maxReconnectAttempts /\ status = "disconnected"

\* C14: when status is `error` because the retry budget is used up and no
\* timer is pending, an explicit connect() that creates a socket sets
\* reconnectAttempts back to 0.
C14_ConnectAfterExhaustionResets ==
  [][(/\ status = "error" /\ errorMessage = ErrMaxAttempts
      /\ reconnectAttempts >= maxReconnectAttempts
      /\ PendingTimers(Self) = 0
      /\ lastOp'.op = "connect" /\ ~threw')
       => reconnectAttempts' = 0]_vars

\* C15: once the component has unmounted, no retry timer is pending and no
\* callback of the manager has any effect: status and lastSync are not
\* written, no message is handed to the handler, nothing is scheduled and no
\* socket is created.
C15_NothingRunsAfterUnmount ==
  [][/\ ~mounted' => PendingTimers(Self)' = 0
     /\ ~mounted =>
          /\ status' = status /\ lastSync' = lastSync
          /\ handled' = <<>> /\ scheduled' = <<>>
          /\ LiveSockets(Self)' <= LiveSockets(Self)]_vars

\* C16: as long as no socket opens and connect() is not called, at most
\* maxReconnectAttempts further sockets are created.
C16_AtMostMaxFurtherSockets == retried <= maxReconnectAttempts

\* C17 (as stated): in the exponential-backoff hook the delay of a scheduled
\* retry is min(1000 * 2^n, 30000) with n the number of retries made before
\* it since the last open: 1000, 2000, 4000, 8000, 16000.
C17_DelayFromRetriesAlreadyMade ==
  (hook = "exp" /\ scheduled # <<>> /\ reconnectAttempts > 0) =>
    scheduled[1] = <<1000, 2000, 4000, 8000, 16000>>[reconnectAttempts]

\* C17 (amended): the delay is min(1000 * 2^n, 30000) with n the value of
\* reconnectAttempts after the increment for the retry being scheduled, so
\* the delays are 2000, 4000, 8000, 16000, 30000; one retry is scheduled per
\* task and no delay exceeds 30000.
C17_DelayFromIncrementedAttempts ==
  (hook = "exp" /\ scheduled # <<>>) =>
    /\ Len(scheduled) = 1
    /\ reconnectAttempts \in 1..maxReconnectAttempts
    /\ scheduled[1] = <<2000, 4000, 8000, 16000, 30000>>[reconnectAttempts]
    /\ scheduled[1] <= maxDelay

C17_CappedDelayScheduled ==
  hook = "exp" /\ scheduled = <<maxDelay>> /\ reconnectAttempts = maxReconnectAttempts

\* The socket wsRef references closes while OPEN, without close() having been
\* called on it, and the retry budget is not used up.
UnexpectedClose ==
  /\ wsRef = OPEN /\ reconnectAttempts < maxReconnectAttempts
  /\ lastOp'.op \in {"close", "fail"} /\ lastOp'.data = "ref"

C19_OpenFailureHandledByRetry ==
  [][(\/ threw'
      \/ wsRef = CONNECTING /\ lastOp'.op \in {"close", "fail"} /\ lastOp'.data = "ref")
       => /\ ~uncaught'
          /\ \/ PendingTimers(Self)' > 0
             \/ reconnectAttempts' >= maxReconnectAttempts /\ status' = "error"]_vars

\* C20: lastSync never moves backward: every step leaves it equal or later,
\* and once it holds a time it is never null again.
C20_LastSyncNeverMovesBack ==
  [][/\ lastSync' >= lastSync
     /\ lastSync # NoDate => lastSync' # NoDate
     /\ lastSync' # lastSync => lastSync' = now /\ lastOp'.op \in {"open", "message"}]_vars

C20_LastSyncKeptAcrossFailure ==
  /\ lastOp.op = "fail" /\ status = "error"
  /\ lastSync # NoDate /\ lastSync < now

C22_DispatchByType ==
  /\ Len(invalidated) <= 1
  /\ lastOp.op # "message" => invalidated = <<>>
  /\ (lastOp.op = "message" /\ onMessage = "dashboard") =>
       invalidated =
         (IF lastOp.data = JsonStringify(Message("data_update")) THEN <<"query">>
          ELSE IF lastOp.data = JsonStringify(Message("log")) THEN <<"logs">>
          ELSE IF lastOp.data = JsonStringify(Message("brain_update")) THEN <<"brain">>
          ELSE <<>>)

C22_BrainUpdateDispatched ==
  /\ lastOp = Op("message", JsonStringify(Message("brain_update")))
  /\ handled = <<Message("brain_update")>> /\ invalidated = <<"brain">>

\* What a handler leaves of the retry machinery: the counter, the socket
\* and timer refs, the other sockets and timers, and the timers it set.
RetryMachinery(m) ==
  <<m.reconnectAttempts, m.wsRef, m.reconnectTimeoutRef, m.detached, m.orphans,
    m.scheduled>>

\* C23: the error handler, run in any reachable state, sets status `error`
\* and leaves the retry machinery and lastSync as they were; after an error
\* event and the close event that follows it, the retry machinery is what a
\* close event alone would have left.
C23_ErrorLeavesRetriesToClose ==
  [][/\ onerror(Self).status = "error"
     /\ RetryMachinery(onerror(Self)) = RetryMachinery(Self)
     /\ onerror(Self).lastSync = lastSync
     /\ lastOp'.op = "fail" =>
          \E st \in Pending :
            /\ Has(lastOp'.data, st)
            /\ <<reconnectAttempts', wsRef', reconnectTimeoutRef', detached', orphans',
                 scheduled'>>
                 = RetryMachinery(onclose(Moves(Self, lastOp'.data, st, CLOSED)))]_vars

C23_RetryScheduledAfterError ==
  /\ hook = "exp" /\ lastOp = Op("fail", "ref")
  /\ errorMessage = ErrConnectionFailed
  /\ status = "reconnecting" /\ reconnectTimeoutRef = PENDING

\* C24: after every task, status is `connected` exactly when the socket
\* wsRef references is OPEN, and an event of a socket wsRef no longer
\* references changes neither status, lastSync nor the retry timers.
C24_ConnectedIffReferencedSocketOpen ==
  [][/\ (status' = "connected") <=> (wsRef' = OPEN)
     /\ (lastOp'.op \in {"open", "message", "close", "fail"} /\ lastOp'.data = "detached")
          => UNCHANGED <<status, lastSync, reconnectTimeoutRef, orphans>>]_vars

\* C25: at most one retry timer is pending, and it is the one
\* reconnectTimeoutRef holds.
C25_OnePendingTimerHeldByRef == PendingTimers(Self) <= 1 /\ orphans = 0

\* C26: 0 <= reconnectAttempts <= maxReconnectAttempts in every reachable
\* state of both hooks.
C26_AttemptsWithinBudget == reconnectAttempts \in 0..maxReconnectAttempts

\* C27: in the exponential-backoff hook, once the referenced socket is OPEN
\* and status is `connected`, they stay so in every step other than a close
\* or error of a socket, a disconnect() call, an unmount or a page reload;
\* the effect and its cleanup are not run again.
C27_OpenSocketIsKept ==
  [][(/\ hook = "exp" /\ wsRef = OPEN /\ status = "connected"
      /\ lastOp'.op \notin {"close", "fail", "disconnect", "unmount", "restart"})
       => (lastOp'.op # "effect" /\ wsRef' = OPEN /\ status' = "connected")]_vars

\* C28: once the backend accepts every attempt, a state with a retry timer
\* pending, or with the socket of a connect() call just made still
\* CONNECTING, and budget left, leads to status `connected` with
\* reconnectAttempts = 0.
RecoveryUnderWay ==
  /\ accepting /\ mounted
  /\ reconnectAttempts < maxReconnectAttempts
  /\ \/ PendingTimers(Self) > 0
     \/ lastOp.op = "connect" /\ ~threw /\ wsRef = CONNECTING

C28_RecoveryIsLive ==
  RecoveryUnderWay ~> (status = "connected" /\ reconnectAttempts = 0)

\* C29: in every reachable state, connect(), disconnect(), send(), the close
\* handler, the error handler and the timer callback leave lastSync as it
\* is, also when they schedule a retry; the open handler sets it to the
\* current time, and the message handler sets it to the current time for a
\* frame JSON.parse accepts and leaves it for any other frame.
C29_LastSyncWrittenByOpenAndFrames ==
  /\ \A throws \in BOOLEAN :
       /\ connect(Self, throws).lastSync = lastSync
       /\ ontimer(Self, throws).lastSync = lastSync
  /\ disconnect(Self).lastSync = lastSync
  /\ \A message \in Outgoing : send(Self, message).lastSync = lastSync
  /\ onclose(Self).lastSync = lastSync
  /\ onerror(Self).lastSync = lastSync
  /\ onclose(onerror(Self)).lastSync = lastSync
  /\ onopen(Self, now).lastSync = now
  /\ \A data \in Frames :
       onmessage(Self, onMessage, data, now).lastSync =
         (IF JsonParse(data).ok THEN now ELSE lastSync)

C29_LastSyncKeptAfterClose ==
  /\ lastOp = Op("close", "ref") /\ wsRef = CLOSED
  /\ reconnectTimeoutRef = PENDING
  /\ lastSync # NoDate /\ lastSync < now

\* C30: in a run of consecutive open failures after one connect(), both
\* hooks create 1 + maxReconnectAttempts sockets: a failure leaves no timer
\* pending only when it is the failure of the last of these sockets, and
\* reconnectAttempts is then maxReconnectAttempts; no run creates more.
C30_HooksAgreeOnBudget ==
  /\ created <= 1 + maxReconnectAttempts
  /\ (/\ lastOp.op \in {"close", "fail"}
      /\ created > 0 /\ failures = created
      /\ PendingTimers(Self) = 0)
       => (created = 1 + maxReconnectAttempts
           /\ reconnectAttempts = maxReconnectAttempts)

C30_FixedDelayBudgetSpent ==
  /\ hook = "fix" /\ lastOp.op \in {"close", "fail"}
  /\ created = 1 + maxReconnectAttempts /\ failures = created
  /\ reconnectAttempts = maxReconnectAttempts
  /\ PendingTimers(Self) = 0 /\ wsRef = CLOSED

====
